---- MODULE Spec2Model ----
(***************************************************************************)
(* JobFinder (jobfinder_optimized.py, with the store and scoring helpers   *)
(* of jobfinder_arabic.py): the jobs store, the scoring pipeline and the    *)
(* batch run of main.                                                       *)
(*                                                                         *)
(* A Python str is a sequence of one-character strings; a store row is a    *)
(* record; the jobs table is the sequence of its rows in rowid order.       *)
(***************************************************************************)
EXTENDS Integers, Sequences, FiniteSets, TLC

VARIABLES
    script,      \* which script's functions are loaded: "optimized" or "arabic"
    jobs,        \* the jobs table of jobs.db: rows in rowid order
    now,         \* datetime.utcnow(), as a tick count
    last,        \* the call or loop iteration that ran last: inputs and result
    call,        \* a pure function under evaluation: name and arguments
    ret,         \* the value that function returned
    pc,          \* where a run of main stands
    run,         \* the locals of that run, and what it wrote and logged
    made,        \* the upserts of jobfinder_optimized that went through, per
                 \* link: the first posting and the highest score upserted
    conn         \* the upsert_job calls that stand between their SELECT and
                 \* their INSERT or UPDATE: the run, the job and what it found

vars == <<script, jobs, now, last, call, ret, pc, run, made, conn>>

-----------------------------------------------------------------------------
(* Python str operations                                                    *)

UpperChars == <<"A", "B", "C", "D", "E", "F", "G", "H", "I", "J", "K", "L", "M", "N", "O", "P", "Q", "R", "S", "T", "U", "V", "W", "X", "Y", "Z", "Ä", "Ö", "Ü">>
LowerChars == <<"a", "b", "c", "d", "e", "f", "g", "h", "i", "j", "k", "l", "m", "n", "o", "p", "q", "r", "s", "t", "u", "v", "w", "x", "y", "z", "ä", "ö", "ü">>
DigitChars == <<"0", "1", "2", "3", "4", "5", "6", "7", "8", "9">>

Range(f) == {f[i] : i \in DOMAIN f}

Min(a, b) == IF a <= b THEN a ELSE b

Max(a, b) == IF a >= b THEN a ELSE b

UpperSet == Range(UpperChars)

LowerOf == [c \in UpperSet |->
               LowerChars[CHOOSE i \in DOMAIN UpperChars : UpperChars[i] = c]]

\* str.lower() of one character
lower_char(c) == IF c \in UpperSet THEN LowerOf[c] ELSE c

\* str.lower()
lower(s) == [i \in 1..Len(s) |-> lower_char(s[i])]

\* s[:n]
Prefix(s, n) == SubSeq(s, 1, Min(n, Len(s)))

\* whether sub stands in s at position i
OccursAt(sub, s, i) ==
    /\ i >= 1
    /\ i + Len(sub) - 1 <= Len(s)
    /\ \A k \in 1..Len(sub) : s[i + k - 1] = sub[k]

\* sub in s
Contains(s, sub) == \E i \in 1..(Len(s) + 1) : OccursAt(sub, s, i)

\* f"{a} {b}"
Sp(a, b) == a \o <<" ">> \o b

WordChars ==
    Range(UpperChars) \cup Range(LowerChars) \cup Range(DigitChars) \cup {"_", "ß"}

\* regex \w (str pattern: Unicode letters, digits, underscore)
IsWordChar(c) == c \in WordChars

\* regex \s
IsSpace(c) == c \in {" ", "\t", "\n"}

\* whether position i of s holds a word character (outside the string: no)
WordAt(s, i) == i \in 1..Len(s) /\ IsWordChar(s[i])

\* regex \b between positions p and p+1 of s
Boundary(s, p) == WordAt(s, p) # WordAt(s, p + 1)

-----------------------------------------------------------------------------
(* CONFIG                                                                   *)

CityBoost == 2
NegationPrefix == 500
NlpPrefix == 1000
SummaryCut == 280
SummaryLimit == 300
SummaryNegCut == 300

CONFIG ==
    [ keywords |-> <<
        <<"M", "e", "d", "i", "z", "i", "n", "t", "e", "c", "h", "n", "i", "k">>, <<"B", "i", "o", "m", "e", "d", "i", "c", "a", "l">>, <<"P", "y", "t", "h", "o", "n">>, <<"C", "+", "+">>, <<"E", "m", "b", "e", "d", "d", "e", "d">>,
        <<"P", "r", "a", "k", "t", "i", "k", "u", "m">>, <<"W", "e", "r", "k", "s", "t", "u", "d", "e", "n", "t">>, <<"Q", "u", "a", "l", "i", "t", "y">>, <<"R", "e", "g", "u", "l", "a", "t", "o", "r", "y">>, <<"M", "D", "R">>, <<"F", "D", "A">>,
        <<"S", "i", "g", "n", "a", "l", "v", "e", "r", "a", "r", "b", "e", "i", "t", "u", "n", "g">>, <<"M", "a", "c", "h", "i", "n", "e", " ", "L", "e", "a", "r", "n", "i", "n", "g">>, <<"K", "I">>,
        <<"K", "ü", "n", "s", "t", "l", "i", "c", "h", "e", " ", "I", "n", "t", "e", "l", "l", "i", "g", "e", "n", "z">> >>,
      preferred_cities |-> <<
        <<"D", "r", "e", "s", "d", "e", "n">>, <<"N", "ü", "r", "n", "b", "e", "r", "g">>, <<"E", "r", "l", "a", "n", "g", "e", "n">>, <<"B", "e", "r", "l", "i", "n">>, <<"M", "ü", "n", "c", "h", "e", "n">> >>,
      feeds |-> <<
        "https://de.indeed.com/rss?q=Medizintechnik+Praktikum&l=Dresden",
        "https://de.indeed.com/rss?q=Software+Praktikum&l=Dresden",
        "https://www.stepstone.de/rss/stellenangebote?what=Python&where=Deutschland" >>,
      search_queries |-> <<
        <<"M", "e", "d", "i", "z", "i", "n", "t", "e", "c", "h", "n", "i", "k", " ", "P", "r", "a", "k", "t", "i", "k", "u", "m", " ", "D", "e", "u", "t", "s", "c", "h", "l", "a", "n", "d">>,
        <<"W", "e", "r", "k", "s", "t", "u", "d", "e", "n", "t", " ", "B", "i", "o", "m", "e", "d", "i", "c", "a", "l", " ", "E", "n", "g", "i", "n", "e", "e", "r", "i", "n", "g">>,
        <<"E", "m", "b", "e", "d", "d", "e", "d", " ", "S", "y", "s", "t", "e", "m", "s", " ", "P", "r", "a", "k", "t", "i", "k", "u", "m">>,
        <<"P", "y", "t", "h", "o", "n", " ", "D", "e", "v", "e", "l", "o", "p", "e", "r", " ", "M", "e", "d", "T", "e", "c", "h">> >>,
      top_n_letters |-> 5 ]

-----------------------------------------------------------------------------
(* Text analysis and scoring                                                *)

negation_words ==
    { <<"k", "e", "i", "n">>, <<"k", "e", "i", "n", "e">>, <<"k", "e", "i", "n", "e", "n">>, <<"n", "i", "c", "h", "t">>, <<"o", "h", "n", "e">>, <<"n", "i", "e">>, <<"n", "i", "e", "m", "a", "l", "s">> }

\* punctuation the tokenizer splits off the ends of a whitespace-delimited chunk
IsPunct(c) == c \in {".", ",", ";", ":", "!", "?", "(", ")", "\""}

\* The tokens of nlp(text) that can be words: the whitespace-delimited chunks
\* of the text with leading and trailing punctuation split off.
Tokens(text) ==
    LET n == Len(text)
        starts == {i \in 1..n : ~IsSpace(text[i]) /\ (i = 1 \/ IsSpace(text[i - 1]))}
        ends == {j \in 1..n : ~IsSpace(text[j]) /\ (j = n \/ IsSpace(text[j + 1]))}
        EndOf(i) == CHOOSE j \in ends : j >= i /\ \A k \in ends : k >= i => j <= k
        Core(i, j) ==
            LET keep == {k \in i..j : ~IsPunct(text[k])}
            IN  IF keep = {} THEN <<>>
                ELSE SubSeq(text,
                            CHOOSE a \in keep : \A k \in keep : a <= k,
                            CHOOSE b \in keep : \A k \in keep : b >= k)
    IN  {Core(i, EndOf(i)) : i \in starts}

\* contains_negation(text); nlp is the outcome of the spaCy call on the text:
\* "ok" (parsed, no token with dep_ "neg"), "neg" (parsed, some token has
\* dep_ "neg") or "fail" (the call raises).
contains_negation(text, nlp) ==
    IF nlp = "fail" THEN FALSE
    ELSE LET doc == Tokens(Prefix(text, NlpPrefix))
         IN  nlp = "neg" \/ \E token \in doc : lower(token) \in negation_words

\* whether re matches \b<kw>\b at position i of text (kw non-empty)
MatchAt(kw, text, i) ==
    /\ OccursAt(kw, text, i)
    /\ Boundary(text, i - 1)
    /\ Boundary(text, i + Len(kw) - 1)

\* len(re.findall(r'\b' + re.escape(kw) + r'\b', text)): the matches found
\* scanning left to right, each search resuming where the last match ended
RECURSIVE ScanFrom(_, _, _)
ScanFrom(starts, k, from) ==
    LET rest == {i \in starts : i >= from}
    IN  IF rest = {} THEN 0
        ELSE LET m == CHOOSE i \in rest : \A j \in rest : i <= j
             IN  1 + ScanFrom(starts, k, m + k)

findall_count(kw, text) ==
    IF kw = <<>>
    THEN Cardinality({p \in 0..Len(text) : Boundary(text, p)})
    ELSE ScanFrom({i \in 1..Len(text) : MatchAt(kw, text, i)}, Len(kw), 1)

\* the substring count of jobfinder_arabic (text_low.count(kw_low)); shown for
\* comparison with the whole-word count
RECURSIVE SumOver(_, _)
SumOver(f, n) == IF n = 0 THEN 0 ELSE f[n] + SumOver(f, n - 1)

count_keyword_hits_substring(text, keywords) ==
    LET text_low == lower(text)
        hits == [n \in 1..Len(keywords) |->
                    LET kw_low == lower(keywords[n])
                    IN  ScanFrom({i \in 1..Len(text_low) : OccursAt(kw_low, text_low, i)},
                                 Len(kw_low), 1)]
    IN  SumOver(hits, Len(keywords))

\* count_keyword_hits(text, keywords)
count_keyword_hits(text, keywords) ==
    LET text_lower == lower(text)
        matches == [n \in 1..Len(keywords) |->
                       findall_count(lower(keywords[n]), text_lower)]
    IN  SumOver(matches, Len(keywords))

\* boost_for_city of jobfinder_arabic: every occurrence of a city counts 1
boost_for_city_count(text, preferred_cities) ==
    LET text_low == lower(text)
        per == [n \in 1..Len(preferred_cities) |->
                   LET c == lower(preferred_cities[n])
                   IN  ScanFrom({i \in 1..Len(text_low) : OccursAt(c, text_low, i)},
                                Len(c), 1)]
    IN  SumOver(per, Len(preferred_cities))

\* boost_for_city(text, preferred_cities)
boost_for_city(text, preferred_cities) ==
    LET text_lower == lower(text)
        bonus == [n \in 1..Len(preferred_cities) |->
                     IF Contains(text_lower, lower(preferred_cities[n]))
                     THEN CityBoost ELSE 0]
    IN  SumOver(bonus, Len(preferred_cities))

\* the gazetteer of location_pattern, in the order of its alternatives
location_cities ==
    << <<"B", "e", "r", "l", "i", "n">>, <<"D", "r", "e", "s", "d", "e", "n">>, <<"M", "ü", "n", "c", "h", "e", "n">>, <<"M", "u", "n", "i", "c", "h">>, <<"H", "a", "m", "b", "u", "r", "g">>, <<"E", "r", "l", "a", "n", "g", "e", "n">>,
       <<"N", "ü", "r", "n", "b", "e", "r", "g">>, <<"F", "r", "a", "n", "k", "f", "u", "r", "t">>, <<"S", "t", "u", "t", "t", "g", "a", "r", "t">>, <<"L", "e", "i", "p", "z", "i", "g">>, <<"K", "ö", "l", "n">>,
       <<"D", "ü", "s", "s", "e", "l", "d", "o", "r", "f">>, <<"H", "a", "n", "n", "o", "v", "e", "r">> >>

\* the legal-entity suffixes of company_pattern, in the order of its
\* alternatives ("GmbH & Co\.\s*KG" can never be taken: "GmbH" stands before it)
company_suffixes ==
    << <<"G", "m", "b", "H">>, <<"A", "G">>, <<"S", "E">>, <<"K", "G">>, <<"e", ".", "V", ".">>, <<"I", "n", "c", ".">>, <<"L", "t", "d", ".">> >>

CompanyMinRun == 2
CompanyMaxRun == 40

\* [A-ZÄÖÜ]
IsCompanyHead(c) == c \in UpperSet

CompanyChars ==
    Range(UpperChars) \cup Range(LowerChars) \cup Range(DigitChars)
        \cup {"ß", "&", ".", "-", " "}

\* [A-Za-zÄÖÜäöüß0-9&.\- ]
IsCompanyChar(c) == c \in CompanyChars

\* re.search(location_pattern, combined, re.IGNORECASE): the leftmost
\* whole-word occurrence of a gazetteer city, as written in the text
location_match(combined) ==
    LET low == lower(combined)
        At(i) == {n \in DOMAIN location_cities :
                     MatchAt(lower(location_cities[n]), low, i)}
        hits == {i \in 1..Len(combined) : At(i) # {}}
    IN  IF hits = {} THEN <<>>
        ELSE LET m == CHOOSE i \in hits : \A j \in hits : i <= j
                 n == CHOOSE a \in At(m) : \A b \in At(m) : a <= b
             IN  SubSeq(combined, m, m + Len(location_cities[n]) - 1)

\* re.search(company_pattern, combined): leftmost start, the longest run of
\* company characters the rest still matches after, the longest whitespace,
\* the first suffix
company_match(combined) ==
    LET L == Len(combined)
        SuffixAt(p) == {n \in DOMAIN company_suffixes :
                           OccursAt(company_suffixes[n], combined, p)}
        Spaces(i, n) == {w \in 1..(L - i - n) :
                            /\ \A k \in 1..w : IsSpace(combined[i + n + k])
                            /\ SuffixAt(i + n + w + 1) # {}}
        Runs(i) == {n \in CompanyMinRun..Min(CompanyMaxRun, L - i) :
                       /\ \A k \in 1..n : IsCompanyChar(combined[i + k])
                       /\ Spaces(i, n) # {}}
        heads == {i \in 1..L :
                     /\ IsCompanyHead(combined[i])
                     /\ Boundary(combined, i - 1)
                     /\ Runs(i) # {}}
    IN  IF heads = {} THEN <<>>
        ELSE LET i == CHOOSE a \in heads : \A b \in heads : a <= b
                 n == CHOOSE a \in Runs(i) : \A b \in Runs(i) : a >= b
                 w == CHOOSE a \in Spaces(i, n) : \A b \in Spaces(i, n) : a >= b
                 s == CHOOSE a \in SuffixAt(i + n + w + 1) :
                          \A b \in SuffixAt(i + n + w + 1) : a <= b
             IN  SubSeq(combined, i, i + n + w + Len(company_suffixes[s]))

\* extract_company_location(title, summary)
extract_company_location(title, summary) ==
    LET combined == Sp(title, summary)
    IN  <<company_match(combined), location_match(combined)>>

\* fetch_page_text(url, timeout, ua); resp is what the request to url gives:
\* kind "ok" with the visible text of the page, or a failure ("timeout",
\* "http_error", "parse_error"), which both except branches turn into ""
fetch_page_text(resp) ==
    IF resp.kind = "ok" THEN resp.text ELSE <<>>

\* the one character U+2026 (horizontal ellipsis)
Ellipsis == "U+2026"

\* the prefix one character short
score_negation_text_short(combined_text) == Prefix(combined_text, NegationPrefix - 1)

\* the text score_job_entry hands to contains_negation
score_negation_text(combined_text) == Prefix(combined_text, NegationPrefix)

\* a score_job_entry that cuts every summary above the cut length
score_job_entry_cut_early(entry, cfg, resp, nlp) ==
    LET title == entry.title
        summary == entry.summary
        page_text == fetch_page_text(resp)
        combined_text == Sp(Sp(title, summary), page_text)
    IN  IF contains_negation(score_negation_text(combined_text), nlp)
        THEN [ title |-> title, company |-> <<>>, location |-> <<>>,
               link |-> entry.link, published |-> entry.published,
               summary |-> Prefix(summary, SummaryNegCut),
               score |-> 0, source |-> entry.source ]
        ELSE LET cl == extract_company_location(title, summary)
             IN  [ title |-> title, company |-> cl[1], location |-> cl[2],
                   link |-> entry.link, published |-> entry.published,
                   summary |-> IF Len(summary) > SummaryCut
                               THEN Prefix(summary, SummaryCut) \o <<Ellipsis>>
                               ELSE summary,
                   score |-> count_keyword_hits(combined_text, cfg.keywords)
                               + boost_for_city(combined_text, cfg.preferred_cities),
                   source |-> entry.source ]

\* score_job_entry(entry, cfg); resp and nlp are what the page request and the
\* spaCy call of this invocation give
score_job_entry(entry, cfg, resp, nlp) ==
    LET title == entry.title
        summary == entry.summary
        page_text == fetch_page_text(resp)
        combined_text == Sp(Sp(title, summary), page_text)
    IN  IF contains_negation(score_negation_text(combined_text), nlp)
        THEN [ title |-> title, company |-> <<>>, location |-> <<>>,
               link |-> entry.link, published |-> entry.published,
               summary |-> Prefix(summary, SummaryNegCut),
               score |-> 0, source |-> entry.source ]
        ELSE LET base_score == count_keyword_hits(combined_text, cfg.keywords)
                 city_boost == boost_for_city(combined_text, cfg.preferred_cities)
                 cl == extract_company_location(title, summary)
                 short_summary ==
                     IF Len(summary) > SummaryLimit
                     THEN Prefix(summary, SummaryCut) \o <<Ellipsis>>
                     ELSE summary
             IN  [ title |-> title, company |-> cl[1], location |-> cl[2],
                   link |-> entry.link, published |-> entry.published,
                   summary |-> short_summary,
                   score |-> base_score + city_boost, source |-> entry.source ]

-----------------------------------------------------------------------------
(* Pure functions: the calls evaluated and their inputs                     *)

NoCall == [fn |-> "none"]
NoRet == [fn |-> "none"]
NoRun == [fn |-> "none"]

\* how far before position NegationPrefix the padded page texts start to put
\* their negation particle, and over how many positions they move it
PadBack == 41
PadSpan == 3

Pad(n) == [i \in 1..n |-> "x"]

PadLengths ==
    ((NegationPrefix - PadBack)..(NegationPrefix - PadBack + PadSpan))
        \cup {NegationPrefix}

\* the configuration of the end-to-end example
cfg_example ==
    [ keywords |-> << <<"M", "e", "d", "i", "z", "i", "n", "t", "e", "c", "h", "n", "i", "k">>, <<"P", "y", "t", "h", "o", "n">>, <<"P", "r", "a", "k", "t", "i", "k", "u", "m">> >>,
      preferred_cities |-> << <<"D", "r", "e", "s", "d", "e", "n">> >> ]

title_example == <<"P", "r", "a", "k", "t", "i", "k", "u", "m", " ", "M", "e", "d", "i", "z", "i", "n", "t", "e", "c", "h", "n", "i", "k", " ", "D", "r", "e", "s", "d", "e", "n">>
summary_example == <<"W", "i", "r", " ", "s", "u", "c", "h", "e", "n", " ", "e", "i", "n", "e", "n", " ", "P", "r", "a", "k", "t", "i", "k", "a", "n", "t", "e", "n", " ", "m", "i", "t", " ", "P", "y", "t", "h", "o", "n", "-", "K", "e", "n", "n", "t", "n", "i", "s", "s", "e", "n", ".">>

ScoreTitles ==
    { title_example,
      <<"W", "e", "r", "k", "s", "t", "u", "d", "e", "n", "t", " ", "P", "y", "t", "h", "o", "n", " ", "B", "e", "r", "l", "i", "n", " ", "o", "d", "e", "r", " ", "D", "r", "e", "s", "d", "e", "n">>,
      <<"K", "e", "i", "n", " ", "P", "r", "a", "k", "t", "i", "k", "u", "m">>,
      <<>> }

ScoreSummaries ==
    { summary_example,
      <<"S", "i", "e", "m", "e", "n", "s", " ", "A", "G", " ", "s", "u", "c", "h", "t", " ", "K", "I", " ", "E", "n", "t", "w", "i", "c", "k", "l", "e", "r", " ", "i", "n", " ", "D", "r", "e", "s", "d", "e", "n", " ", "u", "n", "d", " ", "D", "r", "e", "s", "d", "e", "n", ".">>,
      <<"W", "i", "r", " ", "b", "i", "e", "t", "e", "n", " ", "k", "e", "i", "n", " ", "P", "r", "a", "k", "t", "i", "k", "u", "m", ",", " ", "a", "b", "e", "r", " ", "P", "y", "t", "h", "o", "n", ".">>,
      <<>> }

FetchFailures ==
    { [kind |-> "timeout"], [kind |-> "http_error"], [kind |-> "parse_error"] }

ShortPages ==
    { [kind |-> "ok", text |-> <<>>],
      [kind |-> "ok", text |-> <<"P", "y", "t", "h", "o", "n", " ", "u", "n", "d", " ", "K", "I", " ", "i", "n", " ", "E", "r", "l", "a", "n", "g", "e", "n", ".", " ", "P", "y", "t", "h", "o", "n", "!">>] }

LongPages ==
    { [kind |-> "ok", text |-> Pad(n) \o <<" ", "k", "e", "i", "n", " ", "P", "r", "a", "k", "t", "i", "k", "u", "m", " ", "P", "y", "t", "h", "o", "n">>] :
        n \in PadLengths }

NlpOutcomes == {"ok", "neg", "fail"}

\* summaries as long as the cut length and the limit, and one longer
SummaryLengths == {SummaryCut, SummaryCut + 1, SummaryLimit, SummaryLimit + 1}

LongSummaries == {[i \in 1..n |-> IF i % 7 = 0 THEN " " ELSE "x"] : n \in SummaryLengths}

MkEntry(title, summary) ==
    [ title |-> title, summary |-> summary, link |-> "l1",
      published |-> "p1", source |-> "feed" ]

ScoreCalls ==
    { [fn |-> "score_job_entry", entry |-> MkEntry(t, s), cfg |-> c,
       resp |-> r, nlp |-> a] :
        t \in ScoreTitles, s \in ScoreSummaries, c \in {CONFIG, cfg_example},
        r \in FetchFailures \cup ShortPages, a \in NlpOutcomes }
    \cup
    { [fn |-> "score_job_entry", entry |-> MkEntry(title_example, s),
       cfg |-> CONFIG, resp |-> r, nlp |-> a] :
        s \in {<<>>, summary_example}, r \in LongPages, a \in NlpOutcomes }
    \cup
    { [fn |-> "score_job_entry", entry |-> MkEntry(<<"P", "r", "a", "k", "t", "i", "k", "u", "m">>, s),
       cfg |-> CONFIG, resp |-> [kind |-> "timeout"], nlp |-> a] :
        s \in LongSummaries, a \in NlpOutcomes }

HitTexts ==
    { <<>>,
      <<"S", "k", "y", "p", "e">>,
      <<"W", "i", "r", " ", "s", "u", "c", "h", "e", "n", " ", "e", "i", "n", "e", "n", " ", "K", "i", "n", "d", "e", "r", "a", "r", "z", "t">>,
      <<"K", "I", " ", "u", "n", "d", " ", "k", "i", "-", "S", "y", "s", "t", "e", "m", "e", ",", " ", "a", "u", "c", "h", " ", "K", "i", ".">>,
      <<"P", "Y", "T", "H", "O", "N", " ", "p", "y", "t", "h", "o", "n", " ", "P", "y", "t", "h", "o", "n">>,
      <<"C", "+", "+", " ", "E", "n", "t", "w", "i", "c", "k", "l", "e", "r">>,
      <<"C", "+", "+", "E", "n", "t", "w", "i", "c", "k", "l", "e", "r", " ", "u", "n", "d", " ", "a", "b", "c", "+", "+", "x">>,
      <<"M", "a", "c", "h", "i", "n", "e", " ", "L", "e", "a", "r", "n", "i", "n", "g", " ", "m", "i", "t", " ", "k", "ü", "n", "s", "t", "l", "i", "c", "h", "e", " ", "i", "n", "t", "e", "l", "l", "i", "g", "e", "n", "z">> }

HitKeywords ==
    { <<>>,
      << <<"K", "I">> >>,
      << <<"C", "+", "+">> >>,
      << <<"p", "Y", "t", "H", "o", "N">> >>,
      << <<"C", "+", "+">>, <<"K", "I">> >>,
      CONFIG.keywords }

HitCalls ==
    { [fn |-> "count_keyword_hits", text |-> t, keywords |-> k] :
        t \in HitTexts, k \in HitKeywords }

InitScore ==
    /\ script = "optimized"
    /\ jobs = <<>>
    /\ now = 0
    /\ last = NoCall
    /\ call \in ScoreCalls \cup HitCalls
    /\ ret = NoRet
    /\ pc = "idle"
    /\ run = NoRun
    /\ made = {}
    /\ conn = {}

Do_score_job_entry ==
    /\ call.fn = "score_job_entry"
    /\ ret.fn = "none"
    /\ ret' = [ fn |-> "score_job_entry",
                job_row |-> score_job_entry(call.entry, call.cfg, call.resp, call.nlp) ]
    /\ UNCHANGED <<script, jobs, now, last, call, pc, run, made, conn>>

Do_count_keyword_hits ==
    /\ call.fn = "count_keyword_hits"
    /\ ret.fn = "none"
    /\ ret' = [ fn |-> "count_keyword_hits",
                hits |-> count_keyword_hits(call.text, call.keywords) ]
    /\ UNCHANGED <<script, jobs, now, last, call, pc, run, made, conn>>

NextScore ==
    \/ Do_score_job_entry
    \/ Do_count_keyword_hits

SpecScore == InitScore /\ [][NextScore]_vars

-----------------------------------------------------------------------------
(* Claims about the scoring functions (checked under SpecScore)             *)

\* the combined text of a score_job_entry call
CombinedOf(c) == Sp(Sp(c.entry.title, c.entry.summary), fetch_page_text(c.resp))

\* A negation particle stands in text as a word of its own (the text start or
\* whitespace before it; after it the text end, whitespace, or one punctuation
\* mark followed by the text end or whitespace) and ends at or before limit.
ParticleBy(text, limit) ==
    LET low == lower(text)
        L == Len(text)
        Ends(e) == e > L \/ IsSpace(text[e])
    IN  \E w \in negation_words : \E i \in 1..L :
            /\ OccursAt(w, low, i)
            /\ i + Len(w) - 1 <= limit
            /\ (i = 1 \/ IsSpace(text[i - 1]))
            /\ (Ends(i + Len(w)) \/ (IsPunct(text[i + Len(w)]) /\ Ends(i + Len(w) + 1)))

Suppressed(job_row) ==
    job_row.score = 0 /\ job_row.company = <<>> /\ job_row.location = <<>>

\* C7 (as stated): score_job_entry returns score 0 and empty company and
\* location for every entry whose combined text contains a negation particle,
\* wherever in the combined text the particle stands.
C7_SuppressedAnywhere ==
    (ret.fn = "score_job_entry" /\ call.nlp # "fail"
        /\ ParticleBy(CombinedOf(call), Len(CombinedOf(call))))
    => Suppressed(ret.job_row)

\* C7 (amended): score_job_entry returns score 0 and empty company and
\* location for every entry whose combined text contains a negation particle
\* within its first 500 characters, when the analyzer call does not fail,
\* however many keyword hits the text has.
C7_SuppressedInPrefix ==
    (ret.fn = "score_job_entry" /\ call.nlp # "fail"
        /\ ParticleBy(CombinedOf(call), NegationPrefix))
    => Suppressed(ret.job_row)

\* C7 witness: a particle that ends exactly at character 500 of a text with
\* keyword hits and a preferred city, scored 0.
C7_Witness ==
    /\ ret.fn = "score_job_entry"
    /\ call.nlp = "ok"
    /\ call.resp \in LongPages
    /\ ParticleBy(CombinedOf(call), NegationPrefix)
    /\ ~ParticleBy(CombinedOf(call), NegationPrefix - 1)
    /\ count_keyword_hits(CombinedOf(call), call.cfg.keywords) >= 3
    /\ boost_for_city(CombinedOf(call), call.cfg.preferred_cities) > 0
    /\ Suppressed(ret.job_row)

\* the preferred cities (each listed once in the configuration) that the
\* text mentions
CitiesMentioned(text, preferred_cities) ==
    {n \in DOMAIN preferred_cities :
        \E i \in 1..Len(text) : OccursAt(lower(preferred_cities[n]), lower(text), i)}

IsExampleCall(c) ==
    /\ c.fn = "score_job_entry"
    /\ c.entry.title = title_example
    /\ c.entry.summary = summary_example
    /\ c.cfg = cfg_example
    /\ fetch_page_text(c.resp) = <<>>
    /\ c.nlp = "ok"

\* C8: when no negation is detected, the score of score_job_entry is the
\* keyword hit count of the combined text plus 2 for each preferred city the
\* text mentions, however often it mentions it; the example entry scores 5
\* with location "Dresden".
C8_ScoreIsHitsPlusCityBonus ==
    ret.fn = "score_job_entry" =>
        LET text == CombinedOf(call)
        IN  /\ ~contains_negation(Prefix(text, NegationPrefix), call.nlp) =>
                 ret.job_row.score =
                     count_keyword_hits(text, call.cfg.keywords)
                       + 2 * Cardinality(CitiesMentioned(text, call.cfg.preferred_cities))
            /\ IsExampleCall(call) =>
                 ret.job_row.score = 5 /\ ret.job_row.location = <<"D", "r", "e", "s", "d", "e", "n">>

\* C8 witness: the example entry, scored.
C8_Witness ==
    /\ ret.fn = "score_job_entry"
    /\ IsExampleCall(call)
    /\ call.resp = [kind |-> "ok", text |-> <<>>]
    /\ ret.job_row.score = 5
    /\ ret.job_row.location = <<"D", "r", "e", "s", "d", "e", "n">>

\* an occurrence of kw at position i of text that continues into a longer
\* word: a word character of kw with a word character of the text next to it
InsideWord(kw, text, i) ==
    \/ (IsWordChar(kw[1]) /\ WordAt(text, i - 1))
    \/ (IsWordChar(kw[Len(kw)]) /\ WordAt(text, i + Len(kw)))

OnlyInsideWords(text, keywords) ==
    \A n \in DOMAIN keywords : \A i \in 1..Len(text) :
        OccursAt(lower(keywords[n]), lower(text), i)
            => InsideWord(lower(keywords[n]), lower(text), i)

-----------------------------------------------------------------------------
(* Published timestamps                                                     *)

\* A datetime: day of October 2025, hour, and UTC offset in hours (tz "aware")
\* or no offset (tz "naive").
TwoDigits(n) == <<DigitChars[(n \div 10) + 1], DigitChars[(n % 10) + 1]>>

\* dt.isoformat(timespec="seconds")
isoformat(dt) ==
    <<"2", "0", "2", "5", "-", "1", "0", "-">> \o TwoDigits(dt.day) \o <<"T">> \o TwoDigits(dt.hour) \o <<":", "0", "0", ":", "0", "0">>
        \o (IF dt.tz = "aware" THEN <<"+">> \o TwoDigits(dt.offset) \o <<":", "0", "0">> ELSE <<>>)

\* extract_published(entry): the first of entry's published, updated and created
\* that is set and that dateparser parses; else the current UTC time. A field is
\* [set |-> FALSE], or [set |-> TRUE, ok |-> FALSE] (dateparser raises), or
\* [set |-> TRUE, ok |-> TRUE, dt |-> the datetime parsed].
extract_published(entry, utcnow) ==
    LET Good(val) == val.set /\ val.ok
    IN  IF Good(entry.published) THEN isoformat(entry.published.dt)
        ELSE IF Good(entry.updated) THEN isoformat(entry.updated.dt)
        ELSE IF Good(entry.created) THEN isoformat(entry.created.dt)
        ELSE isoformat(utcnow)

\* the characters of a timestamp in code point order
CodePointOrder == <<"+", "-", ".", "0", "1", "2", "3", "4", "5", "6", "7", "8", "9", ":", "T">>

CodePoint(c) == CHOOSE n \in DOMAIN CodePointOrder : CodePointOrder[n] = c

\* a < b as SQLite compares TEXT (memcmp of the bytes, the shorter first on a
\* common prefix)
TextLess(a, b) ==
    \E k \in 1..(Min(Len(a), Len(b)) + 1) :
        /\ \A j \in 1..(k - 1) : a[j] = b[j]
        /\ \/ (k > Len(a) /\ k <= Len(b))
           \/ (k <= Len(a) /\ k <= Len(b) /\ CodePoint(a[k]) < CodePoint(b[k]))

-----------------------------------------------------------------------------
(* The jobs store                                                           *)

NULL == [null |-> TRUE]
Stamp(t) == [utc |-> t]

\* an init_db that creates the table anew
init_db_recreate(tbl) == <<>>

\* init_db: the table is created if it does not exist yet; an existing table
\* and its rows are left as they are
init_db(tbl) == tbl

\* SELECT id FROM jobs WHERE link = ?
select_id(tbl, link) == {i \in DOMAIN tbl : tbl[i].link = link}

\* INSERT INTO jobs of jobfinder_optimized: the new row gets the next id;
\* link UNIQUE makes the insert of a stored link fail with IntegrityError
insert_row(tbl, job, utcnow) ==
    IF select_id(tbl, job.link) # {}
    THEN [tbl |-> tbl, error |-> "IntegrityError"]
    ELSE [tbl |-> Append(tbl,
                    [ id |-> Len(tbl) + 1, title |-> job.title,
                      company |-> job.company, location |-> job.location,
                      link |-> job.link, published |-> job.published,
                      summary |-> job.summary, score |-> job.score,
                      source |-> job.source, created_at |-> Stamp(utcnow),
                      last_updated |-> NULL ]),
          error |-> "none"]

\* the update that overwrites on an equal score too
update_score_or_equal(tbl, job, utcnow) ==
    [i \in DOMAIN tbl |->
        IF tbl[i].link = job.link /\ tbl[i].score <= job.score
        THEN [tbl[i] EXCEPT !.score = job.score, !.last_updated = Stamp(utcnow)]
        ELSE tbl[i]]

\* the update without the score condition
update_score_always(tbl, job, utcnow) ==
    [i \in DOMAIN tbl |->
        IF tbl[i].link = job.link
        THEN [tbl[i] EXCEPT !.score = job.score, !.last_updated = Stamp(utcnow)]
        ELSE tbl[i]]

\* an update that overwrites the posting's texts as well
update_score_and_texts(tbl, job, utcnow) ==
    [i \in DOMAIN tbl |->
        IF tbl[i].link = job.link /\ tbl[i].score < job.score
        THEN [tbl[i] EXCEPT !.score = job.score, !.last_updated = Stamp(utcnow),
                            !.title = job.title, !.summary = job.summary]
        ELSE tbl[i]]

\* UPDATE jobs SET score = ?, last_updated = ? WHERE link = ? AND score < ?
update_score(tbl, job, utcnow) ==
    [i \in DOMAIN tbl |->
        IF tbl[i].link = job.link /\ tbl[i].score < job.score
        THEN [tbl[i] EXCEPT !.score = job.score, !.last_updated = Stamp(utcnow)]
        ELSE tbl[i]]

\* what upsert_job returns for a link that is stored, updated or not
ret_existing_true == "True"

ret_existing == "False"

\* upsert_job(db_path, job) of jobfinder_optimized. fault is what SQLite does
\* to this call: "none"; "connect" (sqlite3.connect raises, before the try);
\* "execute" (a statement or the commit raises inside the try: nothing is
\* committed and the except branch returns False).
\* Gives the table after the call, the value returned ("True", "False") and
\* whether the call raised instead.
upsert_job(tbl, job, utcnow, fault) ==
    IF fault = "connect" THEN [tbl |-> tbl, ret |-> "raised", raised |-> TRUE]
    ELSE IF fault = "execute" THEN [tbl |-> tbl, ret |-> "False", raised |-> FALSE]
    ELSE LET existing == select_id(tbl, job.link)
         IN  IF existing # {}
             THEN [tbl |-> update_score(tbl, job, utcnow), ret |-> ret_existing,
                   raised |-> FALSE]
             ELSE LET ins == insert_row(tbl, job, utcnow)
                  IN  IF ins.error = "IntegrityError"
                      THEN [tbl |-> tbl, ret |-> "False", raised |-> FALSE]
                      ELSE [tbl |-> ins.tbl, ret |-> "True", raised |-> FALSE]

\* an insert that appends whatever is stored
insert_or_ignore_unchecked(tbl, job, utcnow) ==
    Append(tbl,
        [ id |-> Len(tbl) + 1, title |-> job.title, company |-> job.company,
          location |-> job.location, link |-> job.link,
          published |-> job.published, summary |-> job.summary,
          score |-> job.score, source |-> job.source,
          created_at |-> Stamp(utcnow), last_updated |-> NULL ])

\* INSERT OR IGNORE INTO jobs of jobfinder_arabic: a row whose link is stored
\* is skipped
insert_or_ignore(tbl, job, utcnow) ==
    LET ins == insert_row(tbl, job, utcnow)
    IN  IF ins.error = "IntegrityError" THEN tbl ELSE ins.tbl

\* upsert_job(db_path, job) of jobfinder_arabic: no except branch, so every
\* SQLite error raises to the caller; returns None
upsert_job_arabic(tbl, job, utcnow, fault) ==
    IF fault # "none" THEN [tbl |-> tbl, ret |-> "raised", raised |-> TRUE]
    ELSE [tbl |-> insert_or_ignore(tbl, job, utcnow), ret |-> "None",
          raised |-> FALSE]

\* the rows of SELECT * FROM jobs WHERE score > 0
positive_rows(tbl) == {i \in DOMAIN tbl : tbl[i].score > 0}

\* ORDER BY score DESC, published DESC: row a may stand before row b
order_by(a, b) ==
    \/ a.score > b.score
    \/ (a.score = b.score /\ ~TextLess(a.published, b.published))

\* the injective sequences over the index set S
Orderings(S) ==
    {p \in [1..Cardinality(S) -> S] : \A i, j \in DOMAIN p : i # j => p[i] # p[j]}

\* The results the query can give: every ordering of the selected rows that
\* ORDER BY allows (SQL leaves the order of rows equal in all sort keys open),
\* cut to the first limit rows when limit is set (None and 0 set no LIMIT).
query_results(tbl, limit) ==
    LET sel == positive_rows(tbl)
        ok == {p \in Orderings(sel) :
                  \A i, j \in DOMAIN p : i < j => order_by(tbl[p[i]], tbl[p[j]])}
        n == IF limit = 0 THEN Cardinality(sel) ELSE Min(limit, Cardinality(sel))
    IN  {[k \in 1..n |-> tbl[p[k]]] : p \in ok}

\* fetch_all_jobs(db_path, limit) of jobfinder_optimized: the values it can
\* return. fault as for upsert_job: "execute" makes the except branch return [].
fetch_all_jobs(tbl, limit, fault) ==
    IF fault = "connect" THEN {[rows |-> <<>>, raised |-> TRUE]}
    ELSE IF fault = "execute" THEN {[rows |-> <<>>, raised |-> FALSE]}
    ELSE {[rows |-> r, raised |-> FALSE] : r \in query_results(tbl, limit)}

-----------------------------------------------------------------------------
(* The store under any sequence of calls                                    *)

\* the number of upsert_job calls of a run (each reads the clock once)
MaxCalls == 3
MaxScore == 2
MaxLimit == 2

Links == {"https://x.test/1", "https://x.test/2"}

\* two feed dates: 10:00 at UTC+2 (08:00 UTC) and 09:00 at UTC
FeedDates ==
    << [day |-> 1, hour |-> 10, tz |-> "aware", offset |-> 2],
       [day |-> 1, hour |-> 9, tz |-> "aware", offset |-> 0] >>

\* the postings a link is seen with: two versions of its text and date
Versions == DOMAIN FeedDates

MkJob(link, score, v) ==
    [ title |-> <<"title", v>>, company |-> <<"company", v>>,
      location |-> <<"location", v>>, link |-> link,
      published |-> isoformat(FeedDates[v]), summary |-> <<"summary", v>>,
      score |-> score, source |-> <<"source", v>> ]

JobInputs == {MkJob(l, s, v) : l \in Links, s \in 0..MaxScore, v \in Versions}

Faults == {"none", "connect", "execute"}

\* the row stored for link, or NULL
RowOf(tbl, link) ==
    IF select_id(tbl, link) = {} THEN NULL
    ELSE tbl[CHOOSE i \in select_id(tbl, link) : TRUE]

Init ==
    /\ script \in {"optimized", "arabic"}
    /\ jobs = <<>>
    /\ now = 0
    /\ last = NoCall
    /\ call = NoCall
    /\ ret = NoRet
    /\ pc = "idle"
    /\ run = NoRun
    /\ made = {}
    /\ conn = {}

InitDb ==
    /\ jobs' = init_db(jobs)
    /\ last' = [fn |-> "init_db"]
    /\ UNCHANGED <<script, now, call, ret, pc, run, made, conn>>

\* the fields of a posting other than its score
PostingFields == {"title", "company", "location", "link", "published",
                  "summary", "source"}

\* made after one more upsert of job went through
Recorded(m, job) ==
    IF \E e \in m : e.link = job.link
    THEN {IF e.link = job.link THEN [e EXCEPT !.max = Max(@, job.score)] ELSE e :
            e \in m}
    ELSE m \cup {[link |-> job.link, first |-> [f \in PostingFields |-> job[f]],
                  max |-> job.score]}

UpsertJob ==
    /\ script = "optimized"
    /\ now < MaxCalls
    /\ \E job \in JobInputs, fault \in Faults :
         LET r == upsert_job(jobs, job, now, fault)
         IN  /\ jobs' = r.tbl
             /\ last' = [ fn |-> "upsert_job", job |-> job, fault |-> fault,
                          ret |-> r.ret, raised |-> r.raised,
                          old |-> RowOf(jobs, job.link) ]
             /\ made' = IF fault = "none" THEN Recorded(made, job) ELSE made
    /\ now' = now + 1
    /\ UNCHANGED <<script, call, ret, pc, run, conn>>

UpsertJobArabic ==
    /\ script = "arabic"
    /\ now < MaxCalls
    /\ \E job \in JobInputs, fault \in Faults :
         LET r == upsert_job_arabic(jobs, job, now, fault)
         IN  /\ jobs' = r.tbl
             /\ last' = [ fn |-> "upsert_job", job |-> job, fault |-> fault,
                          ret |-> r.ret, raised |-> r.raised,
                          old |-> RowOf(jobs, job.link) ]
    /\ now' = now + 1
    /\ UNCHANGED <<script, call, ret, pc, run, made, conn>>

FetchAllJobs ==
    /\ script = "optimized"
    /\ \E limit \in 0..MaxLimit, fault \in Faults :
         \E r \in fetch_all_jobs(jobs, limit, fault) :
             last' = [ fn |-> "fetch_all_jobs", limit |-> limit, fault |-> fault,
                       ret |-> r.rows, raised |-> r.raised ]
    /\ UNCHANGED <<script, jobs, now, call, ret, pc, run, made, conn>>

Next ==
    \/ InitDb
    \/ UpsertJob
    \/ UpsertJobArabic
    \/ FetchAllJobs

Spec == Init /\ [][Next]_vars

-----------------------------------------------------------------------------
(* Claims about the store (checked under Spec)                              *)

StoredLinks(tbl) == {tbl[i].link : i \in DOMAIN tbl}

\* the step is an upsert_job call (of either script): each reads the clock
UpsertStep == now' = now + 1

\* C1: after any sequence of upsert_job calls the store holds at most one
\* record per link.
C1_OneRecordPerLink ==
    \A i, j \in DOMAIN jobs : jobs[i].link = jobs[j].link => i = j

\* C1 witness: two links stored, and the last call an upsert of a link that
\* was stored already.
C1_Witness ==
    /\ last.fn = "upsert_job"
    /\ last.fault = "none"
    /\ last.old # NULL
    /\ Len(jobs) = 2
    /\ Cardinality(StoredLinks(jobs)) = 2

\* C2: for a stored link, an upsert_job (jobfinder_optimized) that SQLite
\* carries out with a strictly higher score replaces the stored score, one
\* with a lower or equal score leaves it; and no step lowers a stored score.
C2_ScoreMonotone ==
    [][ /\ (UpsertStep /\ script = "optimized" /\ RowOf(jobs, last'.job.link) # NULL) =>
            LET old == RowOf(jobs, last'.job.link)
                new == RowOf(jobs', last'.job.link)
            IN  /\ (last'.fault = "none" /\ last'.job.score > old.score)
                       => new.score = last'.job.score
                /\ last'.job.score <= old.score => new.score = old.score
        /\ \A l \in StoredLinks(jobs) :
               /\ RowOf(jobs', l) # NULL
               /\ RowOf(jobs', l).score >= RowOf(jobs, l).score ]_vars

\* C2 witness: a stored link upserted with a higher score, and then holding it.
C2_Witness ==
    /\ script = "optimized"
    /\ last.fn = "upsert_job"
    /\ last.fault = "none"
    /\ last.old # NULL
    /\ last.job.score > last.old.score
    /\ RowOf(jobs, last.job.link).score = last.job.score

\* C3: an upsert_job of a stored link with the same or a lower score leaves
\* the store exactly as it was: one record for the link, its score and
\* last_updated unchanged.
C3_Idempotent ==
    [][ (UpsertStep /\ RowOf(jobs, last'.job.link) # NULL
            /\ last'.job.score <= RowOf(jobs, last'.job.link).score)
        => jobs' = jobs ]_vars

\* C3 witness: the same posting upserted again with its stored score; the row
\* is the row as first inserted.
C3_Witness ==
    /\ script = "optimized"
    /\ last.fn = "upsert_job"
    /\ last.fault = "none"
    /\ last.old # NULL
    /\ last.job = MkJob(last.old.link, last.old.score, 1)
    /\ last.old.title = last.job.title
    /\ RowOf(jobs, last.job.link) = last.old
    /\ RowOf(jobs, last.job.link).last_updated = NULL

\* what a call of upsert_job that SQLite carried out did
Outcome(c) ==
    IF c.old = NULL THEN "inserted"
    ELSE IF c.job.score > c.old.score THEN "updated"
    ELSE "ignored"

Completed(c) == c.fn = "upsert_job" /\ c.fault = "none"

DigitValue(c) == (CHOOSE n \in DOMAIN DigitChars : DigitChars[n] = c) - 1

\* the instant an ISO 8601 timestamp denotes, in hours since the start of
\* 2025-10-01 UTC (a timestamp without offset is UTC)
InstantOf(s) ==
    LET day == 10 * DigitValue(s[9]) + DigitValue(s[10])
        hour == 10 * DigitValue(s[12]) + DigitValue(s[13])
        offset == IF Len(s) >= 22
                  THEN (IF s[20] = "-" THEN -1 ELSE 1)
                         * (10 * DigitValue(s[21]) + DigitValue(s[22]))
                  ELSE 0
    IN  24 * (day - 1) + hour - offset

\* C5 (as stated): fetch_all_jobs returns exactly the stored postings with
\* score > 0, each once, in non-increasing score order, and among postings of
\* equal score the more recently published first.
C5_RankedByScoreThenRecency ==
    (last.fn = "fetch_all_jobs" /\ last.fault = "none" /\ last.limit = 0) =>
        LET rows == last.ret
        IN  /\ {rows[k] : k \in DOMAIN rows} = {jobs[i] : i \in positive_rows(jobs)}
            /\ Len(rows) = Cardinality(positive_rows(jobs))
            /\ \A a, b \in DOMAIN rows : a < b =>
                   /\ rows[a].score >= rows[b].score
                   /\ rows[a].score = rows[b].score =>
                          InstantOf(rows[a].published) >= InstantOf(rows[b].published)

\* C6 (as stated): the order returned is deterministic: the same query on the
\* same store contents yields the same sequence.
C6_DeterministicOrder ==
    [][ (last.fn = "fetch_all_jobs" /\ last'.fn = "fetch_all_jobs"
            /\ last.fault = "none" /\ last'.fault = "none"
            /\ last.limit = last'.limit /\ jobs' = jobs)
        => last'.ret = last.ret ]_vars

-----------------------------------------------------------------------------
(* Feeds, web search, export and letters                                    *)

\* str.strip()
RECURSIVE lstrip(_)
lstrip(s) == IF s # <<>> /\ IsSpace(Head(s)) THEN lstrip(Tail(s)) ELSE s

RECURSIVE rstrip(_)
rstrip(s) ==
    IF s # <<>> /\ IsSpace(s[Len(s)]) THEN rstrip(SubSeq(s, 1, Len(s) - 1)) ELSE s

strip(s) == rstrip(lstrip(s))

\* the entries fetch_rss_entries builds from the parsed ones: title, link and
\* summary stripped (the description where the summary is empty), the
\* published date normalised, entries without a link left out
RECURSIVE feed_entries(_, _, _)
feed_entries(parsed_entries, feed_url, utcnow) ==
    IF parsed_entries = <<>> THEN <<>>
    ELSE LET e == Head(parsed_entries)
             entry == [ title |-> strip(e.title),
                        link |-> strip(e.link),
                        summary |-> strip(IF e.summary # <<>> THEN e.summary
                                          ELSE e.description),
                        published |-> extract_published(e, utcnow),
                        source |-> feed_url ]
             rest == feed_entries(Tail(parsed_entries), feed_url, utcnow)
         IN  IF entry.link # <<>> THEN <<entry>> \o rest ELSE rest

\* fetch_rss_entries(feed_url); parsed is what feedparser.parse gives: kind
\* "ok" with the entries, or "error" (it raised), which the except branch
\* turns into []
fetch_rss_entries(feed_url, parsed, utcnow) ==
    IF parsed.kind = "ok" THEN feed_entries(parsed.entries, feed_url, utcnow)
    ELSE <<>>

\* the first position >= from where sub stands in s, or 0
IndexOf(s, sub, from) ==
    LET hits == {i \in from..(Len(s) + 1) : OccursAt(sub, s, i)}
    IN  IF hits = {} THEN 0 ELSE CHOOSE i \in hits : \A j \in hits : i <= j

UrlMark == <<"/", "u", "r", "l", "?", "q", "=">>

\* href.split("/url?q=")[1].split("&")[0] for an href that starts with the mark
clean_href(href) ==
    LET start == Len(UrlMark) + 1
        nxt == IndexOf(href, UrlMark, start)
        part == IF nxt = 0 THEN SubSeq(href, start, Len(href))
                ELSE SubSeq(href, start, nxt - 1)
        amp == IndexOf(part, <<"&">>, 1)
    IN  IF amp = 0 THEN part ELSE SubSeq(part, 1, amp - 1)

\* the links search_jobs_online collects from the hrefs of the result page
RECURSIVE result_links(_)
result_links(hrefs) ==
    IF hrefs = <<>> THEN <<>>
    ELSE LET href == Head(hrefs)
             clean == clean_href(href)
             rest == result_links(Tail(hrefs))
         IN  IF /\ OccursAt(UrlMark, href, 1)
                /\ Contains(clean, <<"h", "t", "t", "p">>)
                /\ ~Contains(clean, <<"g", "o", "o", "g", "l", "e">>)
             THEN <<clean>> \o rest
             ELSE rest

\* search_jobs_online(query, max_results); found is what the request to the
\* search page gives: kind "ok" with the hrefs of its anchors, or "error",
\* which the except branch turns into []
search_jobs_online(found, max_results) ==
    IF found.kind = "ok" THEN Prefix(result_links(found.hrefs), max_results)
    ELSE <<>>

\* datetime.utcnow() at clock tick t, micro microseconds into the second
UtcNow(t, micro) == [day |-> 2, hour |-> t, tz |-> "naive", micro |-> micro]

SixDigits(n) ==
    << DigitChars[((n \div 100000) % 10) + 1], DigitChars[((n \div 10000) % 10) + 1],
       DigitChars[((n \div 1000) % 10) + 1], DigitChars[((n \div 100) % 10) + 1],
       DigitChars[((n \div 10) % 10) + 1], DigitChars[(n % 10) + 1] >>

\* dt.isoformat(): the microseconds are written when they are not 0
isoformat_auto(dt) ==
    isoformat(dt) \o (IF dt.micro = 0 THEN <<>> ELSE <<".">> \o SixDigits(dt.micro))

\* the rows in an order of non-increasing score, as df.sort_values('score',
\* ascending=False) leaves them (the sort is not stable)
sort_values(rows) ==
    { [k \in DOMAIN rows |-> rows[p[k]]] :
        p \in {q \in Orderings(DOMAIN rows) :
                 \A i, j \in DOMAIN q : i < j => rows[q[i]].score >= rows[q[j]].score} }

\* an export that writes the file whatever the rows are
export_to_csv_always(tbl, csv, fault, io) ==
    {[csv |-> [written |-> TRUE, rows |-> <<>>], log |-> "info"]}

\* export_to_csv(db_path, csv_path): the outcomes it can have. csv is the file
\* before the call, io whether writing the file works. Every exception is
\* caught and logged.
export_to_csv(tbl, csv, fault, io) ==
    IF fault = "connect" THEN {[csv |-> csv, log |-> "error"]}
    ELSE UNION {
        IF r.rows = <<>> THEN {[csv |-> csv, log |-> "warning"]}
        ELSE IF io = "fail" THEN {[csv |-> csv, log |-> "error"]}
        ELSE {[csv |-> [written |-> TRUE, rows |-> s], log |-> "info"] :
                 s \in sort_values(r.rows)}
        : r \in fetch_all_jobs(tbl, 0, fault) }

SafeTitleLen == 50

\* re.sub(r'[^\w\s-]', '', title)[:50]
safe_title(title) ==
    Prefix(SelectSeq(title, LAMBDA c : IsWordChar(c) \/ IsSpace(c) \/ c = "-"),
           SafeTitleLen)

\* generate_top_letters(db_path, user, top_n): the outcomes it can have, the
\* letter files written given by their index. unwritable holds the indexes
\* whose file cannot be opened: that is logged and the letter left out.
generate_top_letters(tbl, top_n, fault, unwritable) ==
    IF fault = "connect" THEN {[letters |-> <<>>, log |-> "none", raised |-> TRUE]}
    ELSE { LET files == {idx \in DOMAIN r.rows : idx \notin unwritable}
               letters == [idx \in files |->
                             [ safe_title |-> safe_title(r.rows[idx].title),
                               link |-> r.rows[idx].link,
                               score |-> r.rows[idx].score ]]
           IN  [ letters |-> letters,
                 log |-> IF files = {} THEN "warning" ELSE "info",
                 raised |-> FALSE ]
           : r \in fetch_all_jobs(tbl, top_n, fault) }

-----------------------------------------------------------------------------
(* main of jobfinder_optimized                                              *)

\* bounds of the runs explored
MaxPostings == 2      \* feed entries and search links met in the run

MaxResults == 10      \* max_results of the search of main
TopLimit == 10        \* limit of the ranking main prints
SearchSummaryLen == 500   \* page_text[:500], the summary of a search entry

DateUnset == [set |-> FALSE]
DateBad == [set |-> TRUE, ok |-> FALSE]
DateOk(dt) == [set |-> TRUE, ok |-> TRUE, dt |-> dt]

\* entries feedparser may hand over
ParsedEntries ==
    << [ title |-> <<" ", "P", "r", "a", "k", "t", "i", "k", "u", "m", " ", "P", "y", "t", "h", "o", "n", " ">>, link |-> <<"h", "t", "t", "p", ":", "/", "/", "a", "/", "1">>,
         summary |-> <<"S", "i", "e", "m", "e", "n", "s", " ", "A", "G", " ", "i", "n", " ", "D", "r", "e", "s", "d", "e", "n">>, description |-> <<>>,
         published |-> DateOk(FeedDates[1]), updated |-> DateUnset,
         created |-> DateUnset ],
       [ title |-> <<"W", "e", "r", "k", "s", "t", "u", "d", "e", "n", "t">>, link |-> <<" ", "h", "t", "t", "p", ":", "/", "/", "a", "/", "2">>,
         summary |-> <<>>, description |-> <<"E", "m", "b", "e", "d", "d", "e", "d", " ", "C", " ">>,
         published |-> DateBad, updated |-> DateUnset,
         created |-> DateOk(FeedDates[2]) ],
       [ title |-> <<"K", "o", "c", "h">>, link |-> <<"h", "t", "t", "p", ":", "/", "/", "a", "/", "3">>,
         summary |-> <<"H", "o", "t", "e", "l">>, description |-> <<>>,
         published |-> DateUnset, updated |-> DateBad, created |-> DateUnset ],
       [ title |-> <<"P", "y", "t", "h", "o", "n">>, link |-> <<" ">>,
         summary |-> <<>>, description |-> <<>>,
         published |-> DateUnset, updated |-> DateUnset, created |-> DateUnset ] >>

\* what feedparser.parse may give
FeedResults ==
    {[kind |-> "error"]}
    \cup {[kind |-> "ok", entries |-> l] :
            l \in { <<>>, <<ParsedEntries[1]>>, <<ParsedEntries[2]>>,
                     <<ParsedEntries[3]>>, <<ParsedEntries[4], ParsedEntries[1]>>,
                     <<ParsedEntries[1], ParsedEntries[1]>>,
                     <<ParsedEntries[1], ParsedEntries[2]>> }}

Hrefs ==
    << <<"/", "u", "r", "l", "?", "q", "=", "h", "t", "t", "p", ":", "/", "/", "a", "/", "1", "&", "s", "a", "=", "U">>, <<"/", "u", "r", "l", "?", "q", "=", "h", "t", "t", "p", ":", "/", "/", "a", "/", "4">>,
       <<"/", "u", "r", "l", "?", "q", "=", "h", "t", "t", "p", ":", "/", "/", "g", "o", "o", "g", "l", "e", ".", "d", "e", "/", "x", "&", "s", "a", "=", "U">>, <<"/", "s", "e", "a", "r", "c", "h", "?", "q", "=", "h", "t", "t", "p">> >>

\* what the search request may give
SearchResults ==
    {[kind |-> "error"]}
    \cup {[kind |-> "ok", hrefs |-> l] :
            l \in { <<Hrefs[3], Hrefs[4]>>, <<Hrefs[4], Hrefs[1]>>,
                     <<Hrefs[2]>>, <<Hrefs[1], Hrefs[2]>> }}

\* what the request for a posting's page may give
PageResults ==
    FetchFailures
    \cup { [kind |-> "ok", text |-> <<>>],
           [kind |-> "ok", text |-> <<"P", "y", "t", "h", "o", "n", " ", "i", "n", " ", "B", "e", "r", "l", "i", "n">>] }

\* the microseconds datetime.utcnow() shows when main builds a search entry
UtcMicro == 123456

NewRun(csv, letters) ==
    [ feed |-> 1, entries |-> <<>>, query |-> 1, links |-> <<>>,
      total_processed |-> 0, new_jobs |-> 0, sleeps |-> 0,
      top_jobs |-> <<>>, log |-> {}, csv |-> csv, letters |-> letters ]

NoCsv == [written |-> FALSE, rows |-> <<>>]

InitMain ==
    /\ script = "optimized"
    /\ jobs = <<>>
    /\ now = 0
    /\ last = [fn |-> "none"]
    /\ call = NoCall
    /\ ret = NoRet
    /\ pc = "start"
    /\ run = NewRun(NoCsv, <<>>)
    /\ made = {}
    /\ conn = {}

\* where the feed loop stands after a step that leaves entries to go and nxt
\* as the next feed to read
FeedPc(entries, nxt) ==
    IF entries = <<>> /\ nxt > Len(CONFIG.feeds) THEN "search" ELSE "feeds"

\* the same for the search loop
SearchPc(links, nxt) ==
    IF links = <<>> /\ nxt > Len(CONFIG.search_queries) THEN "report" ELSE "search"

\* main up to the feed loop: init_db and the counters
MainStart ==
    /\ pc = "start"
    /\ jobs' = init_db(jobs)
    /\ pc' = "feeds"
    /\ UNCHANGED <<script, now, last, call, ret, run, made, conn>>

\* for feed in CONFIG["feeds"]: entries = fetch_rss_entries(feed)
FeedRead ==
    /\ pc = "feeds"
    /\ run.entries = <<>>
    /\ run.feed <= Len(CONFIG.feeds)
    /\ \E parsed \in FeedResults :
         \E entries \in {fetch_rss_entries(CONFIG.feeds[run.feed], parsed,
                                             UtcNow(now, 0))} :
             /\ Len(entries) <= MaxPostings - now
             /\ run' = [run EXCEPT !.entries = entries, !.feed = @ + 1]
             /\ pc' = FeedPc(entries, run.feed + 1)
             /\ last' = [fn |-> "fetch_rss_entries", parsed |-> parsed, ret |-> entries]
    /\ UNCHANGED <<script, jobs, now, call, ret, made, conn>>

\* the titles and summaries the entries of a run can have
MainTexts ==
    { <<strip(e.title), strip(IF e.summary # <<>> THEN e.summary ELSE e.description)>> :
        e \in Range(ParsedEntries) }
    \cup { <<q, Prefix(fetch_page_text(r), SearchSummaryLen)>> :
             q \in Range(CONFIG.search_queries), r \in PageResults }

\* score_job_entry on each of them, what it returns but for link, published
\* and source, which it copies from the entry (@@ has the function tabulated,
\* so that it is evaluated once for each text)
Scored ==
    [ k \in MainTexts \X PageResults \X NlpOutcomes |->
        score_job_entry([ title |-> k[1][1], summary |-> k[1][2], link |-> <<>>,
                          published |-> <<>>, source |-> "" ],
                        CONFIG, k[2], k[3]) ] @@ [k \in {} |-> 0]

\* score_job_entry(entry, CONFIG) for an entry of a run
score_entry(entry, resp, nlp) ==
    [ Scored[<<<<entry.title, entry.summary>>, resp, nlp>>] EXCEPT
        !.link = entry.link, !.published = entry.published,
        !.source = entry.source ]

\* the body both loops of main share from score_job_entry on: the entry is
\* scored, stored when its score is above 0, counted, and the loop sleeps. An
\* exception of upsert_job leaves main.
\* a store policy that keeps every posting
is_stored_always(job_row) == TRUE

\* if job_row["score"] > 0: the postings main hands to upsert_job
is_stored(job_row) == job_row.score > 0

ScoreAndStore(origin, entry, first, rest, nextpc) ==
    \E resp \in PageResults, nlp \in NlpOutcomes :
      \E job_row \in {score_entry(entry, resp, nlp)} :
        \E fault \in Faults :
          \E r \in { IF is_stored(job_row)
                      THEN upsert_job(jobs, job_row, now, fault)
                      ELSE [tbl |-> jobs, ret |-> "not_called", raised |-> FALSE] } :
            /\ jobs' = r.tbl
            /\ made' = IF is_stored(job_row) /\ fault = "none"
                       THEN Recorded(made, job_row)
                       ELSE made
            /\ last' = [ fn |-> "posting", origin |-> origin, link |-> entry.link,
                         first |-> first, scored |-> TRUE, entry |-> entry,
                         resp |-> resp, nlp |-> nlp, job_row |-> job_row,
                         upsert |-> r.ret, counted |-> ~r.raised,
                         slept |-> ~r.raised ]
            /\ IF r.raised
               THEN /\ pc' = "aborted"
                    /\ run' = [run EXCEPT !.log = @ \cup {"unexpected_error"}]
               ELSE /\ pc' = nextpc
                    /\ run' = [run EXCEPT
                                 !.entries = IF origin = "feed" THEN rest ELSE @,
                                 !.links = IF origin = "search" THEN rest ELSE @,
                                 !.new_jobs = IF r.ret = "True" THEN @ + 1 ELSE @,
                                 !.total_processed = @ + 1,
                                 !.sleeps = @ + 1]

\* for entry in entries: one entry of the feed
FeedPosting ==
    /\ pc = "feeds"
    /\ run.entries # <<>>
    /\ ScoreAndStore("feed", Head(run.entries), [kind |-> "none"],
                     Tail(run.entries), FeedPc(Tail(run.entries), run.feed))
    /\ now' = now + 1
    /\ UNCHANGED <<script, call, ret, conn>>

\* for query in CONFIG["search_queries"]: links = search_jobs_online(query)
SearchQuery ==
    /\ pc = "search"
    /\ run.links = <<>>
    /\ run.query <= Len(CONFIG.search_queries)
    /\ \E found \in SearchResults :
         \E links \in {search_jobs_online(found, MaxResults)} :
             /\ Len(links) <= MaxPostings - now
             /\ run' = [run EXCEPT !.links = links, !.query = @ + 1]
             /\ pc' = SearchPc(links, run.query + 1)
             /\ last' = [fn |-> "search_jobs_online", found |-> found, ret |-> links]
    /\ UNCHANGED <<script, jobs, now, call, ret, made, conn>>

\* main going on with every link
search_proceeds_always(page_text) == TRUE

\* whether main goes on with a link whose page text is page_text
search_proceeds(page_text) == page_text # <<>>

\* for link in links: one link of the search. first is what the request of
\* main for the page gives; score_job_entry requests the page again.
SearchPosting ==
    /\ pc = "search"
    /\ run.links # <<>>
    /\ LET link == Head(run.links)
           rest == Tail(run.links)
           query == CONFIG.search_queries[run.query - 1]
           nextpc == SearchPc(rest, run.query)
       IN  \E first \in PageResults :
             \E page_text \in {fetch_page_text(first)} :
                 IF ~search_proceeds(page_text)
                 THEN /\ run' = [run EXCEPT !.links = rest]
                      /\ pc' = nextpc
                      /\ last' = [ fn |-> "posting", origin |-> "search",
                                   link |-> link, first |-> first,
                                   scored |-> FALSE, upsert |-> "not_called",
                                   counted |-> FALSE, slept |-> FALSE ]
                      /\ jobs' = jobs
                      /\ made' = made
                 ELSE ScoreAndStore("search",
                          [ title |-> query, link |-> link,
                            summary |-> Prefix(page_text, SearchSummaryLen),
                            published |-> isoformat_auto(UtcNow(now, UtcMicro)),
                            source |-> "Google Suche" ],
                          first, rest, nextpc)
    /\ now' = now + 1
    /\ UNCHANGED <<script, call, ret, conn>>

\* top_jobs = fetch_all_jobs(db_path, limit=10), printed or warned about; an
\* exception of fetch_all_jobs leaves main
MainReport ==
    /\ pc = "report"
    /\ \E fault \in Faults :
         \E r \in fetch_all_jobs(jobs, TopLimit, fault) :
             /\ last' = [ fn |-> "fetch_all_jobs", limit |-> TopLimit,
                          fault |-> fault, ret |-> r.rows, raised |-> r.raised ]
             /\ IF r.raised
                THEN /\ pc' = "aborted"
                     /\ run' = [run EXCEPT !.log = @ \cup {"unexpected_error"}]
                ELSE /\ pc' = "export"
                     /\ run' = [run EXCEPT
                                  !.top_jobs = r.rows,
                                  !.log = IF r.rows = <<>>
                                          THEN @ \cup {"no_jobs_found"} ELSE @]
    /\ UNCHANGED <<script, jobs, now, call, ret, made, conn>>

\* export_to_csv(db_path, csv_path)
MainExport ==
    /\ pc = "export"
    /\ \E fault \in Faults, io \in {"ok", "fail"} :
         \E r \in export_to_csv(jobs, run.csv, fault, io) :
             /\ last' = [ fn |-> "export_to_csv", fault |-> fault, io |-> io,
                          before |-> run.csv, log |-> r.log, raised |-> FALSE ]
             /\ run' = [run EXCEPT !.csv = r.csv,
                                   !.log = @ \cup {"export_" \o r.log}]
    /\ pc' = "letters"
    /\ UNCHANGED <<script, jobs, now, call, ret, made, conn>>

\* generate_top_letters(db_path, user, top_n_letters); an exception of
\* fetch_all_jobs leaves main
MainLetters ==
    /\ pc = "letters"
    /\ \E fault \in Faults, unwritable \in {{}, {1}, 1..CONFIG.top_n_letters} :
         \E r \in generate_top_letters(jobs, CONFIG.top_n_letters, fault, unwritable) :
             /\ last' = [ fn |-> "generate_top_letters", fault |-> fault,
                          unwritable |-> unwritable, log |-> r.log,
                          raised |-> r.raised ]
             /\ IF r.raised
                THEN /\ pc' = "aborted"
                     /\ run' = [run EXCEPT !.log = @ \cup {"unexpected_error"}]
                ELSE /\ pc' = "done"
                     /\ run' = [run EXCEPT !.letters = r.letters,
                                           !.log = @ \cup {"letters_" \o r.log}]
    /\ UNCHANGED <<script, jobs, now, call, ret, made, conn>>

NextMain ==
    \/ MainStart
    \/ FeedRead
    \/ FeedPosting
    \/ SearchQuery
    \/ SearchPosting
    \/ MainReport
    \/ MainExport
    \/ MainLetters

SpecMain == InitMain /\ [][NextMain]_vars

\* the script is started again on the store, the csv file and the letters
\* the runs before have left, as long as postings are left to meet
MainAgain ==
    /\ pc \in {"done", "aborted"}
    /\ now < MaxPostings
    /\ pc' = "start"
    /\ run' = NewRun(run.csv, run.letters)
    /\ last' = [fn |-> "main"]
    /\ UNCHANGED <<script, jobs, now, call, ret, made, conn>>

\* runs of main one after the other
NextRuns ==
    \/ MainStart
    \/ FeedRead
    \/ FeedPosting
    \/ SearchQuery
    \/ SearchPosting
    \/ MainReport
    \/ MainExport
    \/ MainLetters
    \/ MainAgain

SpecRuns == InitMain /\ [][NextRuns]_vars

-----------------------------------------------------------------------------
(* Claims on a run of main                                                  *)

\* whether a page request failed
Failed(resp) == resp \in FetchFailures

\* the score of title and summary alone: 0 when a negation is found in them,
\* else their keyword hits and city bonus (@@ as for Scored)
AloneScore ==
    [ k \in MainTexts \X NlpOutcomes |->
        LET text == Sp(k[1][1], k[1][2])
        IN  IF contains_negation(text, k[2]) THEN 0
            ELSE count_keyword_hits(text, CONFIG.keywords)
                   + boost_for_city(text, CONFIG.preferred_cities) ]
      @@ [k \in {} |-> 0]

\* the posting of the last loop iteration was scored on its title and summary
\* alone and handed to the store policy: upsert_job is called exactly when
\* the score is above 0
ScoredAlone ==
    /\ last.scored
    /\ last.job_row.score = AloneScore[<<<<last.entry.title, last.entry.summary>>, last.nlp>>]
    /\ last.job_row.link = last.link
    /\ (last.job_row.score > 0) <=> (last.upsert # "not_called")

\* C10 (as stated): every posting whose page fetch fails, from a feed or from
\* the web search, gets the empty string as page text and is still scored on
\* its title and summary alone and handed to the store policy.
C10_FailedFetchStillScored ==
    (last.fn = "posting" /\ (Failed(last.first) \/ (last.scored /\ Failed(last.resp))))
        => ScoredAlone

\* C10 (amended): every entry handed to score_job_entry whose page fetch fails
\* gets the empty string as page text and is scored on its title and summary
\* alone and handed to the store policy, and every feed entry is handed to
\* score_job_entry; a link of the web search whose page main cannot fetch
\* (the fetch fails or gives no text) is skipped: not scored, not stored, not
\* counted.
C10_FailedFetchScoredOrSkipped ==
    last.fn = "posting" =>
        /\ (last.scored /\ Failed(last.resp)) =>
               (fetch_page_text(last.resp) = <<>> /\ ScoredAlone)
        /\ last.origin = "feed" => last.scored
        /\ (last.origin = "search" /\ fetch_page_text(last.first) = <<>>) =>
               (~last.scored /\ last.upsert = "not_called" /\ ~last.counted)
        /\ (last.origin = "search" /\ fetch_page_text(last.first) # <<>>) =>
               last.scored

\* a feed entry whose page fetch timed out was scored above 0 on its title and
\* summary and inserted
C10_Witness ==
    /\ last.fn = "posting"
    /\ last.origin = "feed"
    /\ last.resp = [kind |-> "timeout"]
    /\ last.job_row.score > 0
    /\ last.job_row.score = AloneScore[<<<<last.entry.title, last.entry.summary>>, last.nlp>>]
    /\ last.upsert = "True"
    /\ \E i \in DOMAIN jobs : jobs[i].link = last.link /\ jobs[i].score = last.job_row.score

\* C11: when the store has no posting to export, export_to_csv writes no file,
\* logs a warning and returns without raising (where the store cannot even be
\* opened, what it logs is the error).
C11_EmptyStoreExport ==
    (last.fn = "export_to_csv" /\ positive_rows(jobs) = {}) =>
        /\ ~last.raised
        /\ run.csv = last.before
        /\ last.log = (IF last.fault = "connect" THEN "error" ELSE "warning")

\* main exported an empty store that could be read: a warning, and no file
C11_Witness ==
    /\ last.fn = "export_to_csv"
    /\ jobs = <<>>
    /\ last.fault = "none"
    /\ last.log = "warning"
    /\ "export_warning" \in run.log
    /\ run.csv = NoCsv
    /\ pc = "letters"

\* C12 (as stated): a failure while one posting is processed (page fetch,
\* analyzer call, store write) never aborts the run of main.
C12_PostingFailureNeverAborts ==
    last.fn = "posting" => pc # "aborted"

\* C13 (as stated): an upsert_job (jobfinder_optimized) that fails does not
\* raise to its caller, reports not inserted, and leaves the store as it was.
C13_FailedUpsertContained ==
    [][ (UpsertStep /\ script = "optimized" /\ last'.fn = "upsert_job"
            /\ last'.fault # "none")
        => (~last'.raised /\ last'.ret = "False" /\ jobs' = jobs) ]_vars

\* the fields of a record that an update of the score leaves alone
KeptFields ==
    {"id", "title", "company", "location", "link", "published", "summary",
     "source", "created_at"}

\* C14: when upsert_job (jobfinder_optimized) updates a stored record (the new
\* score strictly greater), only score and last_updated of that record change;
\* its other fields, and every other record, stay as they were.
C14_UpdateTouchesScoreOnly ==
    [][ (UpsertStep /\ script = "optimized" /\ last'.fn = "upsert_job"
            /\ last'.fault = "none" /\ last'.old # NULL
            /\ last'.job.score > last'.old.score)
        => /\ DOMAIN jobs' = DOMAIN jobs
           /\ \A i \in DOMAIN jobs :
                 IF jobs[i].link = last'.job.link
                 THEN /\ \A f \in KeptFields : jobs'[i][f] = jobs[i][f]
                      /\ jobs'[i].score = last'.job.score
                      /\ jobs'[i].last_updated = Stamp(now)
                 ELSE jobs'[i] = jobs[i] ]_vars

\* a posting with another title and summary raised the score of a stored
\* link, next to a second record
C14_Witness ==
    /\ script = "optimized"
    /\ last.fn = "upsert_job"
    /\ last.fault = "none"
    /\ last.old # NULL
    /\ last.job.score > last.old.score
    /\ last.job.title # last.old.title
    /\ RowOf(jobs, last.job.link).title = last.old.title
    /\ RowOf(jobs, last.job.link).score = last.job.score
    /\ RowOf(jobs, last.job.link).last_updated # NULL
    /\ Len(jobs) = 2

\* C17: no operation removes a record: every record stays in the store under
\* its id and link, so the set of stored links only grows.
C17_RecordsNeverRemoved ==
    [][ /\ \A i \in DOMAIN jobs :
              /\ i \in DOMAIN jobs'
              /\ jobs'[i].id = jobs[i].id
              /\ jobs'[i].link = jobs[i].link
        /\ StoredLinks(jobs) \subseteq StoredLinks(jobs') ]_vars

\* init_db ran again on a store holding two records, and they are there
C17_Witness ==
    /\ last.fn = "init_db"
    /\ Len(jobs) = 2
    /\ Cardinality(StoredLinks(jobs)) = 2

\* C15 (as stated): two page fetches for different links that follow one
\* another in the loops of main are separated by the sleep: the posting
\* fetched first has slept before the next is fetched.
C15_FetchesThrottled ==
    [][ (last.fn = "posting" /\ last'.fn = "posting" /\ now' = now + 1
            /\ last'.link # last.link)
        => last.slept ]_vars

\* whether score_job_entry finds the call's text negated
Negated(c) == contains_negation(score_negation_text(CombinedOf(c)), c.nlp)

\* C16 (as stated): a summary longer than 280 characters is returned cut to
\* its first 280 characters plus the ellipsis, so that no returned summary
\* exceeds 281 characters; a summary of at most 280 is returned unchanged.
C16_SummaryAtMost281 ==
    ret.fn = "score_job_entry" =>
        LET s == call.entry.summary
            r == ret.job_row.summary
        IN  /\ Len(s) > SummaryCut => r = SubSeq(s, 1, SummaryCut) \o <<Ellipsis>>
            /\ Len(s) <= SummaryCut => r = s
            /\ Len(r) <= SummaryCut + 1

\* C16 (amended): a summary longer than 300 characters is returned cut to its
\* first 280 characters plus the ellipsis, one of at most 300 unchanged; for
\* a negated text the summary is cut to its first 300 characters, without
\* ellipsis. No returned summary exceeds 300 characters.
C16_SummaryAtMost300 ==
    ret.fn = "score_job_entry" =>
        LET s == call.entry.summary
            r == ret.job_row.summary
        IN  /\ Len(r) <= SummaryLimit
            /\ IF Negated(call)
               THEN r = SubSeq(s, 1, Min(Len(s), SummaryNegCut))
               ELSE /\ Len(s) > SummaryLimit =>
                          r = SubSeq(s, 1, SummaryCut) \o <<Ellipsis>>
                    /\ Len(s) <= SummaryLimit => r = s

\* a summary of 301 characters came back as 280 characters and the ellipsis
C16_Witness ==
    /\ ret.fn = "score_job_entry"
    /\ ~Negated(call)
    /\ Len(call.entry.summary) = SummaryLimit + 1
    /\ Len(ret.job_row.summary) = SummaryCut + 1
    /\ ret.job_row.summary[SummaryCut + 1] = Ellipsis
    /\ ret.job_row.score > 0

\* the places where keyword stands in text on its own: no word character
\* before it and none after it
StandaloneAt(keyword, text) ==
    {i \in 1..Len(text) :
        /\ OccursAt(lower(keyword), lower(text), i)
        /\ ~WordAt(text, i - 1)
        /\ ~WordAt(text, i + Len(keyword))}

\* C18 (as stated): count_keyword_hits counts every standalone occurrence of
\* a keyword as a hit, also of keywords that end in non-word characters
\* ('C++ Entwickler' with 'C++' gives 1).
C18_StandaloneHitsCounted ==
    (ret.fn = "count_keyword_hits" /\ Len(call.keywords) = 1) =>
        ret.hits >= Cardinality(StandaloneAt(call.keywords[1], call.text))

\* C19: after any sequence of upsert_job calls of jobfinder_optimized that
\* went through, every link upserted is stored once, with the highest score
\* of all its upserts and with the other fields of its first upsert, and
\* nothing else is stored.
C19_MaxScoreFirstFields ==
    script = "optimized" =>
        /\ StoredLinks(jobs) = {e.link : e \in made}
        /\ \A e \in made :
             \E i \in DOMAIN jobs :
                 /\ jobs[i].link = e.link
                 /\ \A j \in DOMAIN jobs : jobs[j].link = e.link => j = i
                 /\ jobs[i].score = e.max
                 /\ \A f \in PostingFields : jobs[i][f] = e.first[f]

\* a link upserted three times, with a higher score and another text and
\* then with a lower score: the highest score and the first text are stored
C19_Witness ==
    /\ script = "optimized"
    /\ last.fn = "upsert_job"
    /\ last.fault = "none"
    /\ last.old # NULL
    /\ \E e \in made :
         /\ e.link = last.job.link
         /\ RowOf(jobs, e.link).last_updated # NULL
         /\ last.job.score < e.max
         /\ last.job.title # e.first.title
         /\ RowOf(jobs, e.link).score = e.max
         /\ RowOf(jobs, e.link).title = e.first.title

\* C20: in every state of runs of main that start from an empty store, every
\* stored record has a score above 0.
C20_StoredScoresPositive ==
    \A i \in DOMAIN jobs : jobs[i].score > 0

\* a link that is stored is met again with a posting scored 0: the
\* posting is not handed to upsert_job and the stored score stays above 0
C20_Witness ==
    /\ last.fn = "posting"
    /\ last.scored
    /\ last.job_row.score = 0
    /\ last.upsert = "not_called"
    /\ RowOf(jobs, last.link) # NULL
    /\ \E e \in made : e.link = last.link /\ RowOf(jobs, last.link).score = e.max

------------------------------------------------------------------------------
(* two runs of the tool on one jobs.db                                      *)

\* the two runs whose upsert_job calls interleave
Runs == {"A", "B"}

\* the faults of a statement inside the try
TryFaults == {"none", "execute"}

\* upsert_job up to existing = cur.fetchone(): the connection is opened and
\* the link looked up. Gives whether the call goes on, and if not what it
\* returned or that it raised.
upsert_job_select(tbl, job, fault) ==
    IF fault = "connect"
    THEN [open |-> FALSE, ret |-> "raised", raised |-> TRUE]
    ELSE IF fault = "execute"
    THEN [open |-> FALSE, ret |-> "False", raised |-> FALSE]
    ELSE [open |-> TRUE, existing |-> select_id(tbl, job.link)]

\* upsert_job from "if existing" on, on the table as it is by then
upsert_job_write(tbl, job, existing, utcnow, fault) ==
    IF fault = "execute" THEN [tbl |-> tbl, ret |-> "False", done |-> FALSE]
    ELSE IF existing # {}
    THEN [tbl |-> update_score(tbl, job, utcnow), ret |-> ret_existing,
          done |-> TRUE]
    ELSE LET ins == insert_row(tbl, job, utcnow)
         IN  IF ins.error = "IntegrityError"
             THEN [tbl |-> tbl, ret |-> "False", done |-> FALSE]
             ELSE [tbl |-> ins.tbl, ret |-> "True", done |-> TRUE]

InitRace ==
    /\ script = "optimized"
    /\ jobs = <<>>
    /\ now = 0
    /\ last = NoCall
    /\ call = NoCall
    /\ ret = NoRet
    /\ pc = "idle"
    /\ run = NoRun
    /\ made = {}
    /\ conn = {}

\* run p calls upsert_job(db_path, job): connect and SELECT
UpsertSelect(p) ==
    /\ \A c \in conn : c.run # p
    /\ now < MaxCalls
    /\ \E job \in JobInputs, fault \in Faults :
         LET r == upsert_job_select(jobs, job, fault)
         IN  IF r.open
             THEN /\ conn' = conn \cup {[run |-> p, job |-> job,
                                         existing |-> r.existing]}
                  /\ last' = [ fn |-> "select", run |-> p, job |-> job,
                               fault |-> fault ]
             ELSE /\ conn' = conn
                  /\ last' = [ fn |-> "upsert_job", run |-> p, job |-> job,
                               fault |-> fault, ret |-> r.ret,
                               raised |-> r.raised, stale |-> FALSE ]
    /\ now' = now + 1
    /\ UNCHANGED <<script, jobs, call, ret, pc, run, made>>

\* the call of run p goes on after its SELECT: UPDATE or INSERT, and commit
UpsertWrite(p) ==
    /\ \E c \in conn, fault \in TryFaults :
         /\ c.run = p
         /\ LET r == upsert_job_write(jobs, c.job, c.existing, now, fault)
            IN  /\ jobs' = r.tbl
                /\ made' = IF r.done THEN Recorded(made, c.job) ELSE made
                /\ last' = [ fn |-> "upsert_job", run |-> p, job |-> c.job,
                             fault |-> fault, ret |-> r.ret, raised |-> FALSE,
                             stale |-> c.existing # select_id(jobs, c.job.link) ]
         /\ conn' = conn \ {c}
    /\ UNCHANGED <<script, now, call, ret, pc, run>>

NextRace ==
    \/ \E p \in Runs : UpsertSelect(p)
    \/ \E p \in Runs : UpsertWrite(p)

SpecRace == InitRace /\ [][NextRace]_vars

\* C21 (as stated): when two runs interleave their upsert_job calls on one
\* store, each call a SELECT followed later by its INSERT or UPDATE, then in
\* every interleaving the store has at most one record per link, no upsert
\* raises to its caller, and the stored score of a link never decreases.
C21_InterleavedUpsertsSafe ==
    [][ /\ \A i, j \in DOMAIN jobs' : jobs'[i].link = jobs'[j].link => i = j
        /\ \A i \in DOMAIN jobs :
              /\ i \in DOMAIN jobs'
              /\ jobs'[i].link = jobs[i].link
              /\ jobs'[i].score >= jobs[i].score
        /\ (last'.fn = "upsert_job" /\ conn # {}) => ~last'.raised ]_vars

====
